---- MODULE Spec2Model ----
(***************************************************************************)
(* Model of install-citc.py: the installer that provisions a Cluster in    *)
(* the Cloud by driving aws, ssh-keygen, terraform and scp in sequence.    *)
(*                                                                         *)
(* One run of main() is a walk of pc through the statements of main(); the *)
(* filesystem of the directory the installer is started in (dirs, files)   *)
(* outlives a run, everything else is per process.  Text is modelled as a  *)
(* sequence of segments: str.replace and the `in` test act on whole        *)
(* segments, so a template is cut at its substitution points.              *)
(***************************************************************************)
EXTENDS Integers, Sequences, FiniteSets, TLC

VARIABLES
    request,        \* args: the parsed command line (argparse Namespace)
    platform,       \* sys.platform of the host
    pc,             \* the statement of main() the process is at
    exitcode,       \* exit status of the process, Running while it runs
    cwd,            \* current directory, relative to the start directory
    dirs,           \* directories of the start directory: name -> tree
    files,          \* plain files of the start directory: name -> content
    calls,          \* external invocations of this run, in order: argv, status
    probe_output,   \* e.output of the failed credential probe, <<>> before it
    out,            \* lines printed by this run, in order
    trace,          \* steps of main() completed by this run, in order
    terraform,      \* path returned by download_terraform
    ip,             \* local ip
    cluster_id,     \* local cluster_id
    new_dir_name,   \* local new_dir_name
    key_path,       \* local key_path
    tf_zip,         \* local tf_zip
    scp_failures,   \* failed scp attempts of this run (saturates)
    runs,           \* invocations of the installer so far
    keygens,        \* ssh-keygen invocations that produced a key, ever
    prev            \* what the previous invocation left: its key and exit

vars == <<request, platform, pc, exitcode, cwd, dirs, files, calls, probe_output, out, trace,
          terraform, ip, cluster_id, new_dir_name, key_path, tf_zip,
          scp_failures, runs, keygens, prev>>

-----------------------------------------------------------------------------
(* Bounds of the model *)

\* invocations of the installer in one start directory
MaxRuns == 2

\* failed scp attempts that are recorded in calls and out; later ones repeat
MaxScpFailures == 2

-----------------------------------------------------------------------------
(* Values *)

None == "None"
Unset == "<unset>"
Running == 0 - 1

\* argparse choices of the positional csp, and values a user may type
Choices == {"aws"}
CspValues == {"aws", "google"}

\* sys.platform, cut after the prefix that startswith("linux") looks for
Platforms == {<<"linux", "2">>, <<"darwin">>, <<"win32">>, <<"freebsd13">>}

Truthy(x) == x # None /\ x # ""

\* the optional arguments of one invocation: none given, or all five
OptionProfiles ==
    { [region |-> None, availability_zone |-> None, profile |-> None,
       ansible_repo |-> None, ansible_branch |-> None],
      [region |-> "eu-west-1", availability_zone |-> "eu-west-1a", profile |-> "citc",
       ansible_repo |-> "acme/ansible", ansible_branch |-> "dev"] }

\* every combination of the optional arguments: not given (the default None),
\* given with an empty value, given with a value
AllRequests ==
    [csp : CspValues,
     dry_run : BOOLEAN,
     region : {None, "", "eu-west-1"},
     availability_zone : {None, "", "eu-west-1a"},
     profile : {None, "", "citc"},
     terraform_repo : {"clusterinthecloud/terraform"},
     terraform_branch : {"master"},
     ansible_repo : {None, "", "acme/ansible"},
     ansible_branch : {None, "", "dev"}]

Requests ==
    { [csp |-> c, dry_run |-> d,
       region |-> o.region, availability_zone |-> o.availability_zone,
       profile |-> o.profile,
       terraform_repo |-> "clusterinthecloud/terraform", terraform_branch |-> "master",
       ansible_repo |-> o.ansible_repo, ansible_branch |-> o.ansible_branch] :
      c \in CspValues, d \in BOOLEAN, o \in OptionProfiles }

-----------------------------------------------------------------------------
(* Text as sequences of segments *)

RECURSIVE Flatten(_)
Flatten(ss) == IF ss = <<>> THEN <<>> ELSE Head(ss) \o Flatten(Tail(ss))

\* str.replace(old, new): every occurrence of old is replaced
Replace(text, old, new) ==
    Flatten([i \in 1..Len(text) |-> IF text[i] = old THEN new ELSE <<text[i]>>])

\* the `in` test of a substring
Contains(text, s) == \E i \in 1..Len(text) : text[i] = s

Count(text, s) == Cardinality({i \in 1..Len(text) : text[i] = s})

RECURSIVE LStrip(_, _)
LStrip(text, chars) ==
    IF text # <<>> /\ Head(text) \in chars THEN LStrip(Tail(text), chars) ELSE text

RECURSIVE RStrip(_, _)
RStrip(text, chars) ==
    IF text # <<>> /\ text[Len(text)] \in chars
    THEN RStrip(SubSeq(text, 1, Len(text) - 1), chars)
    ELSE text

\* str.strip(chars)
Strip(text, chars) == RStrip(LStrip(text, chars), chars)

Whitespace == {" ", "\n", "\t"}

RECURSIVE Join(_)
Join(text) == IF text = <<>> THEN "" ELSE Head(text) \o Join(Tail(text))

-----------------------------------------------------------------------------
(* Config Renderer *)

KeyPathDefault == "~/.ssh/aws-key"
HeredocMarker == "admin_public_keys = <<EOF"

Assignment(name, value) == "\n" \o name \o " = \"" \o value \o "\""

\* aws_config_file with the profile line appended before the region line
aws_config_file_ProfileFirst(config, args, pub_key_file) ==
    LET c1 == Replace(config, KeyPathDefault, <<"citc-key">>)
        pub_key_text == Strip(pub_key_file, Whitespace)
        c2 == Replace(c1, HeredocMarker, <<HeredocMarker, "\n">> \o pub_key_text)
        c3 == IF Truthy(args.profile)
              THEN Append(c2, Assignment("profile", args.profile)) ELSE c2
        c4 == IF Truthy(args.region)
              THEN Append(c3, Assignment("region", args.region)) ELSE c3
        c5 == IF Truthy(args.availability_zone)
              THEN Append(c4, Assignment("availability_zone", args.availability_zone)) ELSE c4
    IN c5

aws_config_file(config, args, pub_key_file) ==
    LET c1 == Replace(config, KeyPathDefault, <<"citc-key">>)
        pub_key_text == Strip(pub_key_file, Whitespace)
        c2 == Replace(c1, HeredocMarker, <<HeredocMarker, "\n">> \o pub_key_text)
        c3 == IF Truthy(args.region)
              THEN Append(c2, Assignment("region", args.region)) ELSE c2
        c4 == IF Truthy(args.availability_zone)
              THEN Append(c3, Assignment("availability_zone", args.availability_zone)) ELSE c3
        c5 == IF Truthy(args.profile)
              THEN Append(c4, Assignment("profile", args.profile)) ELSE c4
    IN c5

\* config_text without the test of ansible_repo: the line is always appended
config_text_Unconditional(config, args, pub_key_file) ==
    LET c1 == aws_config_file(config, args, pub_key_file)
        c2 == Append(c1, Assignment("ansible_repo", args.ansible_repo))
        c3 == IF Truthy(args.ansible_branch)
              THEN Append(c2, Assignment("ansible_branch", args.ansible_branch)) ELSE c2
    IN c3

\* the text config_file writes back; only reached with csp = "aws"
config_text(config, args, pub_key_file) ==
    LET c1 == aws_config_file(config, args, pub_key_file)
        c2 == IF Truthy(args.ansible_repo)
              THEN Append(c1, Assignment("ansible_repo", args.ansible_repo)) ELSE c1
        c3 == IF Truthy(args.ansible_branch)
              THEN Append(c2, Assignment("ansible_branch", args.ansible_branch)) ELSE c2
    IN c3

-----------------------------------------------------------------------------
(* Filesystem: a tree maps a path (sequence of components) to a file's text *)

EmptyTree == <<>>

Put(tree, path, content) ==
    [p \in (DOMAIN tree) \cup {path} |-> IF p = path THEN content ELSE tree[p]]

IsPrefix(d, p) == Len(d) <= Len(p) /\ SubSeq(p, 1, Len(d)) = d

\* os.path.isfile / os.path.isdir inside a tree
IsFile(tree, path) == path \in DOMAIN tree
IsDir(tree, d) == \E p \in DOMAIN tree : p # d /\ IsPrefix(d, p)

\* shutil.rmtree of a subdirectory of a tree
RmSubtree(tree, d) == [p \in {q \in DOMAIN tree : ~IsPrefix(d, q)} |-> tree[p]]

\* directory entries of the start directory
WithDir(ds, name, tree) ==
    [n \in (DOMAIN ds) \cup {name} |-> IF n = name THEN tree ELSE ds[n]]
WithoutDir(ds, name) == [n \in (DOMAIN ds) \ {name} |-> ds[n]]

TfvarsPath(csp) == <<csp, "terraform.tfvars">>
DotTerraform(csp) == <<csp, ".terraform">>

-----------------------------------------------------------------------------
(* What the environment can answer *)

\* aws/terraform.tfvars of the fetched repository: with and without the two
\* substitution points of aws_config_file
Templates ==
    { <<HeredocMarker, "\nEOF", "\nprivate_key_path = \"", KeyPathDefault, "\"">>,
      <<HeredocMarker, "\nEOF", "\nprivate_key_path = \"~/.ssh/id_rsa\"">>,
      <<"admin_public_keys = \"\"", "\nprivate_key_path = \"", KeyPathDefault, "\"">>,
      <<"# empty">> }

FetchedTree(template) ==
    [p \in {TfvarsPath("aws"), <<"aws", "main.tf">>} |->
        IF p = TfvarsPath("aws") THEN template ELSE <<"# terraform">>]

\* output of the failed aws probe, cut at the markers main() looks for
ProbeOutputs ==
    { <<"An error occurred (", "DryRunOperation", ")">>,
      <<"An error occurred (", "RequestExpired", ")">>,
      <<"RequestExpired", " ", "DryRunOperation">>,
      <<"An error occurred (", "AuthFailure", ")">> }

\* what `terraform output -raw` prints, cut into characters and runs of
\* characters that strip() leaves alone
RawIps == { <<"10.0.0.7">>, <<"\"", "10.0.0.7", "\"", "\n">>, <<"\"", "\"", "\n">>, <<>> }
RawIds == { <<"able-crow">>, <<" ", "\"", "able-crow", "\"", "\n">>, <<"\n">>, <<"\"", "\"">> }

PrivateKey(k) == <<"PRIVATE KEY " \o ToString(k), "\n">>
PublicKey(k) == <<"ssh-ed25519 AAAA" \o ToString(k), "\n">>

-----------------------------------------------------------------------------
(* One invocation of the installer *)

locals == <<probe_output, terraform, ip, cluster_id, new_dir_name, key_path, tf_zip>>
world == <<platform, runs, prev>>

Min(a, b) == IF a < b THEN a ELSE b

\* an uncaught exception, exit(1), or argparse's error
Die(code) ==
    /\ pc' = "failed"
    /\ exitcode' = code

Completed(step) == trace' = Append(trace, step)

\* rc: the exit status of the process, 1 for a urlretrieve that raises
Called(argv, rc) == calls' = Append(calls, [argv |-> argv, rc |-> rc])

Failure == 1

Chdir(csp) == "-chdir=" \o csp

Init ==
    /\ request \in Requests
    /\ platform \in Platforms
    /\ pc = "parse"
    /\ exitcode = Running
    /\ cwd = "."
    /\ dirs = <<>>
    /\ files = <<>>
    /\ calls = <<>>
    /\ probe_output = <<>>
    /\ out = <<>>
    /\ trace = <<>>
    /\ terraform = Unset
    /\ ip = Unset
    /\ cluster_id = Unset
    /\ new_dir_name = Unset
    /\ key_path = Unset
    /\ tf_zip = Unset
    /\ scp_failures = 0
    /\ runs = 1
    /\ keygens = 0
    /\ prev = [exitcode |-> Running, key |-> <<>>, failed_after_keys |-> FALSE]

\* ParseArgs without choices: every csp is accepted
ParseArgs_AnyProvider ==
    /\ pc = "parse"
    /\ pc' = "preflight"
    /\ out' = Append(out, <<"Installing Cluster in the Cloud on AWS">>)
    /\ UNCHANGED <<request, exitcode, cwd, dirs, files, calls, trace, scp_failures,
                   keygens, locals, world>>

\* parser.parse_args(): a csp outside choices is an error, exit status 2
ParseArgs ==
    /\ pc = "parse"
    /\ IF request.csp \in Choices
       THEN /\ pc' = "preflight"
            /\ out' = Append(out, <<"Installing Cluster in the Cloud on AWS">>)
            /\ UNCHANGED exitcode
       ELSE /\ Die(2)
            /\ UNCHANGED out
    /\ UNCHANGED <<request, cwd, dirs, files, calls, trace, scp_failures,
                   keygens, locals, world>>

check_command(args) ==
    <<"aws", "--dry-run", "ec2", "describe-images">>
        \o (IF Truthy(args.profile) THEN <<"--profile", args.profile>> ELSE <<>>)
        \o (IF Truthy(args.region) THEN <<"--region", args.region>> ELSE <<>>)

\* PreflightSkipped without the test of dry_run: the probe is made anyway
PreflightSkipped_Probes ==
    /\ pc = "preflight"
    /\ request.dry_run
    /\ Called(check_command(request), 0)
    /\ pc' = "fetch_infra"
    /\ Completed("Preflight")
    /\ UNCHANGED <<request, exitcode, cwd, dirs, files, out, scp_failures,
                   keygens, locals, world>>

PreflightSkipped ==
    /\ pc = "preflight"
    /\ request.dry_run
    /\ pc' = "fetch_infra"
    /\ Completed("Preflight")
    /\ UNCHANGED <<request, exitcode, cwd, dirs, files, calls, out, scp_failures,
                   keygens, locals, world>>

PreflightProbeOk ==
    /\ pc = "preflight"
    /\ ~request.dry_run
    /\ Called(check_command(request), 0)
    /\ pc' = "fetch_infra"
    /\ Completed("Preflight")
    /\ UNCHANGED <<request, exitcode, cwd, dirs, files, out, scp_failures,
                   keygens, locals, world>>

\* PreflightProbeFails with a handler that prints and never exits
PreflightProbeFails_Swallowed ==
    /\ pc = "preflight"
    /\ ~request.dry_run
    /\ \E output \in ProbeOutputs :
        /\ Called(check_command(request), 255)
        /\ probe_output' = output
        /\ out' = out \o (IF Contains(output, "RequestExpired")
                          THEN <<<<"AWS credentials have expired:">>>> ELSE <<>>)
        /\ pc' = "fetch_infra"
        /\ Completed("Preflight")
    /\ UNCHANGED <<request, exitcode, cwd, dirs, files, scp_failures, keygens,
                   terraform, ip, cluster_id, new_dir_name, key_path, tf_zip, world>>

\* except CalledProcessError as e
PreflightProbeFails ==
    /\ pc = "preflight"
    /\ ~request.dry_run
    /\ \E output \in ProbeOutputs :
        LET expired == IF Contains(output, "RequestExpired")
                       THEN <<<<"AWS credentials have expired:">>>> ELSE <<>>
        IN  /\ Called(check_command(request), 255)
            /\ probe_output' = output
            /\ IF ~Contains(output, "DryRunOperation")
               THEN /\ out' = out \o expired \o <<output>>
                    /\ Die(1)
                    /\ UNCHANGED trace
               ELSE /\ out' = out \o expired
                    /\ pc' = "fetch_infra"
                    /\ Completed("Preflight")
                    /\ UNCHANGED exitcode
    /\ UNCHANGED <<request, cwd, dirs, files, scp_failures, keygens,
                   terraform, ip, cluster_id, new_dir_name, key_path, tf_zip, world>>

RepoUrl(args) ==
    "https://github.com/" \o args.terraform_repo \o "/archive/"
        \o args.terraform_branch \o ".tar.gz"

\* FetchInfra without the rmtree: the fetched files are laid over citc-terraform
FetchInfra_KeepsOld ==
    /\ pc = "fetch_infra"
    /\ out' = Append(out, <<"Downloading CitC Terraform configuration">>)
    /\ \/ \E template \in Templates :
            LET old == IF "citc-terraform" \in DOMAIN dirs
                       THEN dirs["citc-terraform"] ELSE EmptyTree
                tree == FetchedTree(template)
                merged == [q \in (DOMAIN old) \cup (DOMAIN tree) |->
                              IF q \in DOMAIN tree THEN tree[q] ELSE old[q]]
            IN  /\ Called(<<"urlretrieve", RepoUrl(request)>>, 0)
                /\ dirs' = WithDir(dirs, "citc-terraform", merged)
                /\ cwd' = "citc-terraform"
                /\ pc' = "fetch_tool"
                /\ Completed("FetchInfra")
                /\ UNCHANGED exitcode
       \/ /\ Called(<<"urlretrieve", RepoUrl(request)>>, Failure)
          /\ Die(1)
          /\ UNCHANGED <<dirs, cwd, trace>>
    /\ UNCHANGED <<request, files, scp_failures, keygens, locals, world>>

\* urlretrieve, extractall, rmtree("citc-terraform"), rename, chdir
FetchInfra ==
    /\ pc = "fetch_infra"
    /\ out' = Append(out, <<"Downloading CitC Terraform configuration">>)
    /\ \/ \E template \in Templates :
            LET extracted == "terraform-" \o request.terraform_branch
                d1 == WithDir(dirs, extracted, FetchedTree(template))
                d2 == WithoutDir(d1, "citc-terraform")
                d3 == WithDir(WithoutDir(d2, extracted), "citc-terraform", d2[extracted])
            IN  /\ Called(<<"urlretrieve", RepoUrl(request)>>, 0)
                /\ dirs' = d3
                /\ cwd' = "citc-terraform"
                /\ pc' = "fetch_tool"
                /\ Completed("FetchInfra")
                /\ UNCHANGED exitcode
       \/ /\ Called(<<"urlretrieve", RepoUrl(request)>>, Failure)
          /\ Die(1)
          /\ UNCHANGED <<dirs, cwd, trace>>
    /\ UNCHANGED <<request, files, scp_failures, keygens, locals, world>>

TerraformVersion == "1.0.3"

\* tf_platform with an archive name for win32 in place of the refusal
tf_platform_Win32(p) ==
    IF Head(p) = "linux" THEN "linux_amd64"
    ELSE IF p = <<"darwin">> THEN "darwin_amd64"
    ELSE IF p = <<"win32">> THEN "windows_amd64"
    ELSE None

\* the branches on sys.platform; None for the two that raise NotImplementedError
tf_platform(p) ==
    IF Head(p) = "linux" THEN "linux_amd64"
    ELSE IF p = <<"darwin">> THEN "darwin_amd64"
    ELSE None

tf_url(version, p) ==
    "https://releases.hashicorp.com/terraform/" \o version \o "/terraform_"
        \o version \o "_" \o tf_platform(p) \o ".zip"

\* download_terraform("1.0.3")
FetchTool ==
    /\ pc = "fetch_tool"
    /\ IF tf_platform(platform) = None
       THEN /\ Die(1)
            /\ UNCHANGED <<dirs, calls, out, trace, terraform>>
       ELSE /\ out' = Append(out, <<"Downloading Terraform binary">>)
            /\ \/ /\ Called(<<"urlretrieve", tf_url(TerraformVersion, platform)>>, 0)
                  /\ dirs' = [dirs EXCEPT ![cwd] =
                                Put(@, <<"terraform">>,
                                    <<"terraform ", TerraformVersion, tf_platform(platform)>>)]
                  /\ terraform' = "./terraform"
                  /\ pc' = "ensure_keys"
                  /\ Completed("FetchTool")
                  /\ UNCHANGED exitcode
               \/ /\ Called(<<"urlretrieve", tf_url(TerraformVersion, platform)>>, Failure)
                  /\ Die(1)
                  /\ UNCHANGED <<dirs, trace, terraform>>
    /\ UNCHANGED <<request, cwd, files, scp_failures, keygens, probe_output,
                   ip, cluster_id, new_dir_name, key_path, tf_zip, world>>

SshKeygen == <<"ssh-keygen", "-t", "ed25519", "-f", "citc-key", "-N", "">>

\* if not os.path.isfile("citc-key"): check_call(ssh-keygen)
EnsureKeys ==
    /\ pc = "ensure_keys"
    /\ IF IsFile(dirs[cwd], <<"citc-key">>)
       THEN /\ pc' = "init"
            /\ Completed("EnsureKeys")
            /\ UNCHANGED <<exitcode, dirs, calls, keygens>>
       ELSE \/ /\ Called(SshKeygen, 0)
               /\ keygens' = keygens + 1
               /\ dirs' = [dirs EXCEPT ![cwd] =
                             Put(Put(@, <<"citc-key">>, PrivateKey(keygens + 1)),
                                 <<"citc-key.pub">>, PublicKey(keygens + 1))]
               /\ pc' = "init"
               /\ Completed("EnsureKeys")
               /\ UNCHANGED exitcode
            \/ /\ Called(SshKeygen, Failure)
               /\ Die(1)
               /\ UNCHANGED <<dirs, trace, keygens>>
    /\ UNCHANGED <<request, cwd, files, out, scp_failures, locals, world>>

\* TerraformInit that goes on to Render, leaving validate out
TerraformInit_SkipsValidate ==
    /\ pc = "init"
    /\ \/ /\ Called(<<terraform, Chdir(request.csp), "init">>, 0)
          /\ dirs' = [dirs EXCEPT ![cwd] =
                        Put(Put(@, DotTerraform(request.csp) \o <<"providers">>, <<"provider">>),
                            <<request.csp, ".terraform.lock.hcl">>, <<"lock">>)]
          /\ pc' = "render"
          /\ Completed("Init")
          /\ UNCHANGED exitcode
       \/ /\ Called(<<terraform, Chdir(request.csp), "init">>, Failure)
          /\ Die(1)
          /\ UNCHANGED <<dirs, trace>>
    /\ UNCHANGED <<request, cwd, files, out, scp_failures, keygens, locals, world>>

\* check_call([terraform, "-chdir=csp", "init"])
TerraformInit ==
    /\ pc = "init"
    /\ \/ /\ Called(<<terraform, Chdir(request.csp), "init">>, 0)
          /\ IsDir(dirs[cwd], <<request.csp>>)
          /\ dirs' = [dirs EXCEPT ![cwd] =
                        Put(Put(@, DotTerraform(request.csp) \o <<"providers">>, <<"provider">>),
                            <<request.csp, ".terraform.lock.hcl">>, <<"lock">>)]
          /\ pc' = "validate"
          /\ Completed("Init")
          /\ UNCHANGED exitcode
       \/ /\ Called(<<terraform, Chdir(request.csp), "init">>, Failure)
          /\ Die(1)
          /\ UNCHANGED <<dirs, trace>>
    /\ UNCHANGED <<request, cwd, files, out, scp_failures, keygens, locals, world>>

\* TerraformValidate with call() in place of check_call(): the status is ignored
TerraformValidate_Unchecked ==
    /\ pc = "validate"
    /\ \E rc \in {0, Failure} : Called(<<terraform, Chdir(request.csp), "validate">>, rc)
    /\ pc' = "render"
    /\ Completed("Validate")
    /\ UNCHANGED <<request, exitcode, cwd, dirs, files, out, scp_failures, keygens,
                   locals, world>>

\* check_call([terraform, "-chdir=csp", "validate"])
TerraformValidate ==
    /\ pc = "validate"
    /\ \/ /\ Called(<<terraform, Chdir(request.csp), "validate">>, 0)
          /\ pc' = "render"
          /\ Completed("Validate")
          /\ UNCHANGED exitcode
       \/ /\ Called(<<terraform, Chdir(request.csp), "validate">>, Failure)
          /\ Die(1)
          /\ UNCHANGED trace
    /\ UNCHANGED <<request, cwd, dirs, files, out, scp_failures, keygens, locals, world>>

\* config_file(args.csp, args)
Render ==
    /\ pc = "render"
    /\ IF /\ IsFile(dirs[cwd], TfvarsPath(request.csp))
          /\ request.csp = "aws"
          /\ IsFile(dirs[cwd], <<"citc-key.pub">>)
       THEN /\ dirs' = [dirs EXCEPT ![cwd] =
                          Put(@, TfvarsPath(request.csp),
                              config_text(@[TfvarsPath(request.csp)], request,
                                          @[<<"citc-key.pub">>]))]
            /\ pc' = "apply"
            /\ Completed("Render")
            /\ UNCHANGED exitcode
       ELSE /\ Die(1)
            /\ UNCHANGED <<dirs, trace>>
    /\ UNCHANGED <<request, cwd, files, calls, out, scp_failures, keygens, locals, world>>

\* the else branch of `if not args.dry_run`: placeholders instead of a cluster
PretendCreate ==
    /\ pc = "apply"
    /\ request.dry_run
    /\ out' = Append(out, <<"... pretending to create the cluster ...">>)
    /\ ip' = "1.1.1.1"
    /\ cluster_id' = "test-cluster"
    /\ pc' = "rename"
    /\ trace' = trace \o <<"Apply", "ExtractOutputs">>
    /\ UNCHANGED <<request, exitcode, cwd, dirs, files, calls, scp_failures, keygens,
                   probe_output, terraform, new_dir_name, key_path, tf_zip, world>>

\* check_call([terraform, "-chdir=csp", "apply", "-auto-approve"])
TerraformApply ==
    /\ pc = "apply"
    /\ ~request.dry_run
    /\ \/ /\ Called(<<terraform, Chdir(request.csp), "apply", "-auto-approve">>, 0)
          /\ dirs' = [dirs EXCEPT ![cwd] =
                        Put(@, <<request.csp, "terraform.tfstate">>, <<"state">>)]
          /\ pc' = "output_ip"
          /\ Completed("Apply")
          /\ UNCHANGED exitcode
       \/ /\ Called(<<terraform, Chdir(request.csp), "apply", "-auto-approve">>, Failure)
          /\ Die(1)
          /\ UNCHANGED <<dirs, trace>>
    /\ UNCHANGED <<request, cwd, files, out, scp_failures, keygens, locals, world>>

OutputCommand(name) ==
    <<terraform, Chdir(request.csp), "output", "-no-color", "-raw",
      "-state=terraform.tfstate", name>>

\* check_output(...).decode().strip().strip('"')
Extracted(raw) == Join(Strip(Strip(raw, Whitespace), {"\""}))

OutputIp ==
    /\ pc = "output_ip"
    /\ \/ \E raw \in RawIps :
            /\ Called(OutputCommand("ManagementPublicIP"), 0)
            /\ ip' = Extracted(raw)
            /\ pc' = "output_id"
            /\ UNCHANGED exitcode
       \/ /\ Called(OutputCommand("ManagementPublicIP"), Failure)
          /\ Die(1)
          /\ UNCHANGED ip
    /\ UNCHANGED <<request, cwd, dirs, files, out, trace, scp_failures, keygens,
                   probe_output, terraform, cluster_id, new_dir_name, key_path, tf_zip, world>>

OutputClusterId ==
    /\ pc = "output_id"
    /\ \/ \E raw \in RawIds :
            /\ Called(OutputCommand("cluster_id"), 0)
            /\ cluster_id' = Extracted(raw)
            /\ pc' = "rename"
            /\ Completed("ExtractOutputs")
            /\ UNCHANGED exitcode
       \/ /\ Called(OutputCommand("cluster_id"), Failure)
          /\ Die(1)
          /\ UNCHANGED <<cluster_id, trace>>
    /\ UNCHANGED <<request, cwd, dirs, files, out, scp_failures, keygens,
                   probe_output, terraform, ip, new_dir_name, key_path, tf_zip, world>>

\* os.chdir(".."); os.rename("citc-terraform", new_dir_name); key_path = ...
\* rename(2) onto a directory that is not empty fails
RenameWorkDir ==
    /\ pc = "rename"
    /\ cwd' = "."
    /\ LET name == "citc-terraform-" \o cluster_id
       IN  /\ new_dir_name' = name
           /\ IF name \in DOMAIN dirs /\ dirs[name] # EmptyTree
              THEN /\ Die(1)
                   /\ UNCHANGED <<dirs, key_path, trace>>
              ELSE /\ dirs' = WithDir(WithoutDir(dirs, "citc-terraform"), name,
                                      dirs["citc-terraform"])
                   /\ key_path' = name \o "/citc-key"
                   /\ pc' = "rmtree"
                   /\ Completed("Rename")
                   /\ UNCHANGED exitcode
    /\ UNCHANGED <<request, files, calls, out, scp_failures, keygens,
                   probe_output, terraform, ip, cluster_id, tf_zip, world>>

\* RemoveCache that leaves the directory in place
RemoveCache_Keeps ==
    /\ pc = "rmtree"
    /\ pc' = "archive"
    /\ Completed("Rmtree")
    /\ UNCHANGED <<request, exitcode, cwd, dirs, files, calls, out, scp_failures, keygens,
                   locals, world>>

\* shutil.rmtree(os.path.join(new_dir_name, args.csp, ".terraform"))
RemoveCache ==
    /\ pc = "rmtree"
    /\ IF IsDir(dirs[new_dir_name], DotTerraform(request.csp))
       THEN /\ dirs' = [dirs EXCEPT ![new_dir_name] =
                          RmSubtree(@, DotTerraform(request.csp))]
            /\ pc' = "archive"
            /\ Completed("Rmtree")
            /\ UNCHANGED exitcode
       ELSE /\ Die(1)
            /\ UNCHANGED <<dirs, trace>>
    /\ UNCHANGED <<request, cwd, files, calls, out, scp_failures, keygens, locals, world>>

ArchiveName(base_name) == base_name \o ".tar.gz"

\* MakeArchive with new_dir_name as the base name of the archive
MakeArchive_NamedByCluster ==
    /\ pc = "archive"
    /\ tf_zip' = ArchiveName(new_dir_name)
    /\ files' = WithDir(files, ArchiveName(new_dir_name),
                        [base_dir |-> new_dir_name, tree |-> dirs[new_dir_name]])
    /\ pc' = IF request.dry_run THEN "notice" ELSE "scp"
    /\ Completed("Archive")
    /\ UNCHANGED <<request, exitcode, cwd, dirs, calls, out, scp_failures, keygens,
                   probe_output, terraform, ip, cluster_id, new_dir_name, key_path, world>>

\* tf_zip = shutil.make_archive("citc-terraform", "gztar", ".", new_dir_name)
MakeArchive ==
    /\ pc = "archive"
    /\ tf_zip' = ArchiveName("citc-terraform")
    /\ files' = WithDir(files, ArchiveName("citc-terraform"),
                        [base_dir |-> new_dir_name, tree |-> dirs[new_dir_name]])
    /\ pc' = IF request.dry_run THEN "notice" ELSE "scp"
    /\ Completed("Archive")
    /\ UNCHANGED <<request, exitcode, cwd, dirs, calls, out, scp_failures, keygens,
                   probe_output, terraform, ip, cluster_id, new_dir_name, key_path, world>>

\* ScpCommand with the key named as it was before os.chdir("..")
ScpCommand_LocalKey ==
    <<"scp", "-i", "citc-key", "-o", "StrictHostKeyChecking no", "-o",
      "IdentitiesOnly=yes", tf_zip, "citc@" \o ip \o ":.">>

ScpCommand ==
    <<"scp", "-i", key_path, "-o", "StrictHostKeyChecking no", "-o",
      "IdentitiesOnly=yes", tf_zip, "citc@" \o ip \o ":.">>

\* the attempts after MaxScpFailures failures repeat without being recorded
Recorded(log, entry) == IF scp_failures < MaxScpFailures THEN Append(log, entry) ELSE log

\* ScpFails with check_call() in place of the loop: a failed copy is fatal
ScpFails_GivesUp ==
    /\ pc = "scp"
    /\ calls' = Recorded(calls, [argv |-> ScpCommand, rc |-> Failure])
    /\ Die(1)
    /\ UNCHANGED <<request, cwd, dirs, files, out, trace, scp_failures,
                   keygens, locals, world>>

\* ScpFails with os.remove(tf_zip) inside the loop body
ScpFails_RemovesArchive ==
    /\ pc = "scp"
    /\ calls' = Recorded(calls, [argv |-> ScpCommand, rc |-> Failure])
    /\ files' = WithoutDir(files, tf_zip)
    /\ pc' = "sleep"
    /\ UNCHANGED <<request, exitcode, cwd, dirs, out, trace, scp_failures,
                   keygens, locals, world>>

\* call(scp) != 0: the loop body is entered
ScpFails ==
    /\ pc = "scp"
    /\ calls' = Recorded(calls, [argv |-> ScpCommand, rc |-> Failure])
    /\ pc' = "sleep"
    /\ UNCHANGED <<request, exitcode, cwd, dirs, files, out, trace, scp_failures,
                   keygens, locals, world>>

\* Backoff with make_archive inside the loop body
Backoff_Rearchives ==
    /\ pc = "sleep"
    /\ out' = Recorded(out, <<"Trying to upload Terraform state...">>)
    /\ scp_failures' = Min(scp_failures + 1, MaxScpFailures)
    /\ files' = WithDir(files, tf_zip, [base_dir |-> new_dir_name, tree |-> dirs[new_dir_name]])
    /\ trace' = IF scp_failures < MaxScpFailures THEN Append(trace, "Archive") ELSE trace
    /\ pc' = "scp"
    /\ UNCHANGED <<request, exitcode, cwd, dirs, calls, keygens, locals, world>>

\* print("Trying to upload Terraform state..."); time.sleep(10)
Backoff ==
    /\ pc = "sleep"
    /\ out' = Recorded(out, <<"Trying to upload Terraform state...">>)
    /\ scp_failures' = Min(scp_failures + 1, MaxScpFailures)
    /\ pc' = "scp"
    /\ UNCHANGED <<request, exitcode, cwd, dirs, files, calls, trace,
                   keygens, locals, world>>

\* call(scp) == 0: the loop ends
ScpSucceeds ==
    /\ pc = "scp"
    /\ Called(ScpCommand, 0)
    /\ pc' = "remove"
    /\ Completed("Copy")
    /\ UNCHANGED <<request, exitcode, cwd, dirs, files, out, scp_failures,
                   keygens, locals, world>>

PretendUpload ==
    /\ pc = "notice"
    /\ out' = Append(out, <<"... pretending to upload the config ", tf_zip,
                            " to the cluster ...">>)
    /\ pc' = "remove"
    /\ Completed("Notice")
    /\ UNCHANGED <<request, exitcode, cwd, dirs, files, calls, scp_failures,
                   keygens, locals, world>>

\* os.remove(tf_zip)
RemoveArchive ==
    /\ pc = "remove"
    /\ files' = WithoutDir(files, tf_zip)
    /\ pc' = "summary"
    /\ trace' = trace \o <<"Remove", "Handoff">>
    /\ UNCHANGED <<request, exitcode, cwd, dirs, calls, out, scp_failures,
                   keygens, locals, world>>

SummaryLines ==
    << <<"">>,
       <<"################################################################################">>,
       <<"">>,
       <<"The file '", key_path, "' will allow you to log into the new cluster">>,
       <<"Make sure you save this key as it is needed to destroy the cluster later.">>,
       <<"">>,
       <<"The IP address of the cluster is ", ip>>,
       <<"Connect with:">>,
       <<"  ssh -i ", key_path, " citc@", ip>>,
       <<"">>,
       <<"You can destroy the cluster with:">>,
       <<"  python destroy-citc.py ", request.csp, " ", ip, " ", key_path>> >>

Summarize ==
    /\ pc = "summary"
    /\ out' = out \o SummaryLines
    /\ pc' = "done"
    /\ exitcode' = 0
    /\ Completed("Summarize")
    /\ UNCHANGED <<request, cwd, dirs, files, calls, scp_failures, keygens, locals, world>>

Did(step) == \E i \in 1..Len(trace) : trace[i] = step

WorkDir == IF \E i \in 1..Len(trace) : trace[i] = "Rename" THEN new_dir_name ELSE "citc-terraform"

\* the private key the run's working tree holds, <<>> when it holds none
KeyInUse ==
    IF WorkDir \in DOMAIN dirs /\ IsFile(dirs[WorkDir], <<"citc-key">>)
       /\ \E i \in 1..Len(trace) : trace[i] = "EnsureKeys"
    THEN dirs[WorkDir][<<"citc-key">>] ELSE <<>>

\* the run died in init, validate, render, apply or the output extraction
FailedAfterKeys ==
    /\ pc = "failed"
    /\ trace # <<>>
    /\ trace[Len(trace)] \in {"EnsureKeys", "Init", "Validate", "Render", "Apply"}

\* the installer is started again in the same directory
NewRun ==
    /\ pc \in {"done", "failed"}
    /\ runs < MaxRuns
    /\ runs' = runs + 1
    /\ prev' = [exitcode |-> exitcode, key |-> KeyInUse, failed_after_keys |-> FailedAfterKeys]
    /\ request' \in Requests
    /\ pc' = "parse"
    /\ exitcode' = Running
    /\ cwd' = "."
    /\ calls' = <<>>
    /\ probe_output' = <<>>
    /\ out' = <<>>
    /\ trace' = <<>>
    /\ terraform' = Unset
    /\ ip' = Unset
    /\ cluster_id' = Unset
    /\ new_dir_name' = Unset
    /\ key_path' = Unset
    /\ tf_zip' = Unset
    /\ scp_failures' = 0
    /\ UNCHANGED <<platform, dirs, files, keygens>>

\* one step of the running installer
Run ==
    \/ ParseArgs
    \/ PreflightSkipped
    \/ PreflightProbeOk
    \/ PreflightProbeFails
    \/ FetchInfra
    \/ FetchTool
    \/ EnsureKeys
    \/ TerraformInit
    \/ TerraformValidate
    \/ Render
    \/ PretendCreate
    \/ TerraformApply
    \/ OutputIp
    \/ OutputClusterId
    \/ RenameWorkDir
    \/ RemoveCache
    \/ MakeArchive
    \/ ScpFails
    \/ Backoff
    \/ ScpSucceeds
    \/ PretendUpload
    \/ RemoveArchive
    \/ Summarize

Next == Run \/ NewRun

\* invocations of the installer, one after the other, in one directory
Spec == Init /\ [][Next]_vars

\* a single invocation; the process keeps running until it exits
LiveSpec == Init /\ [][Run]_vars /\ WF_vars(Run)

\* every combination of the optional arguments in a dry run, those of
\* Requests without --dry-run
OptionRequests == {r \in AllRequests : r.dry_run \/ r \in Requests}

\* a first invocation on linux with any combination of the optional arguments
OptionInit ==
    /\ request \in OptionRequests
    /\ platform = <<"linux", "2">>
    /\ pc = "parse"
    /\ exitcode = Running
    /\ cwd = "."
    /\ dirs = <<>>
    /\ files = <<>>
    /\ calls = <<>>
    /\ probe_output = <<>>
    /\ out = <<>>
    /\ trace = <<>>
    /\ terraform = Unset
    /\ ip = Unset
    /\ cluster_id = Unset
    /\ new_dir_name = Unset
    /\ key_path = Unset
    /\ tf_zip = Unset
    /\ scp_failures = 0
    /\ runs = 1
    /\ keygens = 0
    /\ prev = [exitcode |-> Running, key |-> <<>>, failed_after_keys |-> FALSE]

\* a single invocation, over every combination of the optional arguments
OptionSpec == OptionInit /\ [][Run]_vars

-----------------------------------------------------------------------------
(* Observations on a run *)

IsProbe(c) == c.argv[1] = "aws"
IsKeygen(c) == c.argv[1] = "ssh-keygen"
IsScp(c) == c.argv[1] = "scp"
IsDownload(c) == c.argv[1] = "urlretrieve"
IsTerraform(c, sub) == Len(c.argv) >= 3 /\ c.argv[2] = Chdir(request.csp) /\ c.argv[3] = sub

Invoked(sub) == \E i \in 1..Len(calls) : IsTerraform(calls[i], sub)
Succeeded(sub) == \E i \in 1..Len(calls) : IsTerraform(calls[i], sub) /\ calls[i].rc = 0

Printed(line) == \E i \in 1..Len(out) : out[i] = line

DestroyLine == <<"  python destroy-citc.py ", request.csp, " ", ip, " ", key_path>>

StepOrder ==
    <<"Preflight", "FetchInfra", "FetchTool", "EnsureKeys", "Init", "Validate",
      "Render", "Apply", "ExtractOutputs", "Handoff", "Summarize">>

StepIndex(step) == CHOOSE i \in 1..Len(StepOrder) : StepOrder[i] = step

\* the steps of StepOrder the run has completed, in the order it completed them
Steps == SelectSeq(trace, LAMBDA s : \E i \in 1..Len(StepOrder) : StepOrder[i] = s)

\* the step of StepOrder a statement of main() belongs to
PcStep ==
    CASE pc = "preflight" -> "Preflight"
      [] pc = "fetch_infra" -> "FetchInfra"
      [] pc = "fetch_tool" -> "FetchTool"
      [] pc = "ensure_keys" -> "EnsureKeys"
      [] pc = "init" -> "Init"
      [] pc = "validate" -> "Validate"
      [] pc = "render" -> "Render"
      [] pc = "apply" -> "Apply"
      [] pc \in {"output_ip", "output_id"} -> "ExtractOutputs"
      [] pc \in {"rename", "rmtree", "archive", "scp", "sleep", "notice", "remove"} -> "Handoff"
      [] pc = "summary" -> "Summarize"
      [] OTHER -> None

InHandoff == pc \in {"rmtree", "archive", "scp", "sleep", "notice", "remove", "summary", "done"}

-----------------------------------------------------------------------------
(* C1: a dry run never invokes the credential probe, terraform apply,       *)
(* terraform output or scp, and every step after the cluster creation works *)
(* with the address "1.1.1.1" and the identifier "test-cluster".            *)
C1_DryRunHasNoSideEffects ==
    request.dry_run =>
        /\ \A i \in 1..Len(calls) :
             /\ ~IsProbe(calls[i])
             /\ ~IsScp(calls[i])
             /\ ~IsTerraform(calls[i], "apply")
             /\ ~IsTerraform(calls[i], "output")
        /\ Did("ExtractOutputs") => ip = "1.1.1.1" /\ cluster_id = "test-cluster"
        /\ new_dir_name # Unset => new_dir_name = "citc-terraform-test-cluster"
        /\ key_path # Unset => key_path = "citc-terraform-test-cluster/citc-key"
        /\ pc = "done" =>
             /\ Printed(<<"The IP address of the cluster is ", "1.1.1.1">>)
             /\ Printed(<<"  python destroy-citc.py ", "aws", " ", "1.1.1.1", " ",
                          "citc-terraform-test-cluster/citc-key">>)

C1_Witness ==
    /\ request.dry_run
    /\ request.profile # None
    /\ pc = "done"
    /\ Len(calls) = 5

\* the probe is the first invocation of a run that makes it
ProbeMade == calls # <<>> /\ IsProbe(calls[1])

ProbeRejected == calls[1].rc # 0 /\ ~Contains(probe_output, "DryRunOperation")

ExpiredNotice == <<"AWS credentials have expired:">>

\* what a run without --dry-run looks like once the probe has answered
C2_ProbeVerdict ==
    ~request.dry_run =>
        /\ trace # <<>> => ProbeMade
        /\ ProbeMade =>
             IF ProbeRejected
             THEN /\ pc = "failed"
                  /\ exitcode > 0
                  /\ Len(calls) = 1
                  /\ trace = <<>>
                  /\ cwd = "."
                  /\ out[Len(out)] = probe_output
             ELSE /\ trace[1] = "Preflight"
                  /\ pc = "failed" => Len(calls) > 1 /\ IsDownload(calls[2])
        /\ ProbeMade =>
             (Printed(ExpiredNotice) <=>
                (calls[1].rc # 0 /\ Contains(probe_output, "RequestExpired")))

(* C2: in a run without --dry-run the probe ends the run with a non-zero    *)
(* exit, before any fetch and any change of the filesystem, exactly when it *)
(* exits non-zero and its output lacks "DryRunOperation"; otherwise the run *)
(* goes on to the infra fetch.  "RequestExpired" in the output adds one     *)
(* line of diagnostic and changes nothing else.                             *)
C2_PreflightVerdict ==
    /\ []C2_ProbeVerdict
    /\ [][pc = "preflight" => UNCHANGED <<dirs, files, cwd>>]_vars

C2_Witness ==
    /\ ~request.dry_run
    /\ ProbeMade
    /\ ProbeRejected
    /\ Contains(probe_output, "RequestExpired")
    /\ pc = "failed"
    /\ runs = 2
    /\ DOMAIN dirs # {}

(* C3: with --dry-run absent and apply succeeded, an address or identifier  *)
(* that is empty after the stripping ends the run: no rename, archive, copy *)
(* or Summary happens with an empty value.                                  *)
C3_EmptyOutputIsFatal ==
    (~request.dry_run /\ Succeeded("apply") /\ (ip = "" \/ cluster_id = "")) =>
        /\ new_dir_name = Unset
        /\ tf_zip = Unset
        /\ ~InHandoff
        /\ \A i \in 1..Len(calls) : ~IsScp(calls[i])

\* the invocations made with check_call or check_output after the fetches
MustSucceed(c) ==
    \/ IsKeygen(c)
    \/ \E sub \in {"init", "validate", "apply", "output"} : IsTerraform(c, sub)

StepOfCall(c) ==
    IF IsKeygen(c) THEN "EnsureKeys"
    ELSE IF IsTerraform(c, "init") THEN "Init"
    ELSE IF IsTerraform(c, "validate") THEN "Validate"
    ELSE IF IsTerraform(c, "apply") THEN "Apply"
    ELSE "ExtractOutputs"

(* C4: a non-zero exit of ssh-keygen or of terraform init, validate, apply  *)
(* or output is the last thing the run does: it ends with a non-zero exit,  *)
(* no step after the failing one is executed and nothing is destroyed.      *)
C4_ToolFailureAborts ==
    \A i \in 1..Len(calls) :
        (MustSucceed(calls[i]) /\ calls[i].rc # 0) =>
            /\ i = Len(calls)
            /\ pc = "failed"
            /\ exitcode > 0
            /\ Steps = SubSeq(StepOrder, 1, StepIndex(StepOfCall(calls[i])) - 1)
            /\ new_dir_name = Unset /\ tf_zip = Unset
            /\ ~Printed(<<"You can destroy the cluster with:">>)
            /\ \A j \in 1..Len(calls) : ~Contains(calls[j].argv, "destroy")

C4_Witness ==
    /\ pc = "failed"
    /\ calls # <<>>
    /\ IsTerraform(calls[Len(calls)], "apply")
    /\ calls[Len(calls)].rc # 0
    /\ IsFile(dirs["citc-terraform"], TfvarsPath("aws"))

\* the variable file of a tree is what config_file writes for some template
RenderedFile(tree) ==
    \E template \in Templates :
        tree[TfvarsPath(request.csp)] = config_text(template, request, tree[<<"citc-key.pub">>])

(* C5: the steps happen in the order of StepOrder, each entered when all    *)
(* before it are completed (or skipped by --dry-run): apply is invoked only *)
(* after init and validate succeeded and the variable file was rendered,    *)
(* scp only after apply succeeded and both outputs were extracted, and the  *)
(* Summary is printed only after the handoff.                               *)
C5_FixedStepOrder ==
    /\ Steps = SubSeq(StepOrder, 1, Len(Steps))
    /\ PcStep # None => Len(Steps) = StepIndex(PcStep) - 1
    /\ pc = "done" => Steps = StepOrder
    /\ Invoked("apply") =>
         /\ Succeeded("init") /\ Succeeded("validate")
         /\ Did("Render")
         /\ RenderedFile(dirs[WorkDir])
    /\ (\E i \in 1..Len(calls) : IsScp(calls[i])) =>
         /\ Succeeded("apply")
         /\ Did("ExtractOutputs")
         /\ ip # Unset /\ cluster_id # Unset
         /\ Cardinality({i \in 1..Len(calls) :
                           IsTerraform(calls[i], "output") /\ calls[i].rc = 0}) = 2
    /\ Printed(<<"You can destroy the cluster with:">>) => Did("Handoff")

C5_Witness ==
    /\ pc = "done"
    /\ ~request.dry_run
    /\ Steps = StepOrder
    /\ scp_failures > 0

CopySucceeded == \E i \in 1..Len(calls) : IsScp(calls[i]) /\ calls[i].rc = 0

\* a run never fails after its first scp, and passes the loop only on success
C6_CopyState ==
    /\ pc = "failed" => \A i \in 1..Len(calls) : ~IsScp(calls[i])
    /\ (~request.dry_run /\ pc \in {"remove", "summary", "done"}) => CopySucceeded
    /\ pc = "done" => exitcode = 0

(* C6: without --dry-run a failed scp attempt is followed by the backoff    *)
(* and another attempt and never ends the run as failed; once an attempt    *)
(* succeeds the run reaches the Summary and exits with 0, and a run that    *)
(* got to the copy ends only after an attempt succeeded.                    *)
C6_RetryUntilCopied ==
    /\ []C6_CopyState
    /\ [][pc = "scp" => pc' \in {"sleep", "remove"}]_vars
    /\ [][pc = "sleep" => pc' = "scp" /\ UNCHANGED <<exitcode, dirs, files>>]_vars
    /\ (pc = "sleep") ~> (pc = "scp")
    /\ CopySucceeded ~> (pc = "done" /\ exitcode = 0 /\ Printed(DestroyLine))

C6_Witness ==
    /\ pc = "done"
    /\ scp_failures = MaxScpFailures
    /\ Len(calls) > 9
    /\ CopySucceeded

ArchiveExists == tf_zip \in DOMAIN files

UploadNotice == <<"... pretending to upload the config ", tf_zip, " to the cluster ...">>

(* C7: the archive exists at every scp attempt and at the upload notice, no *)
(* attempt follows a successful one, the archive is deleted only after the  *)
(* successful attempt (or the notice of a dry run), and it is gone when the *)
(* run ends successfully.                                                   *)
C7_ArchiveLifetime ==
    /\ pc \in {"scp", "sleep", "notice"} => ArchiveExists
    /\ \A i \in 1..Len(calls) : (IsScp(calls[i]) /\ calls[i].rc = 0) => i = Len(calls)
    /\ pc \in {"scp", "sleep"} => ~CopySucceeded
    /\ (tf_zip # Unset /\ ~ArchiveExists) =>
         /\ pc \in {"summary", "done"}
         /\ IF request.dry_run THEN Printed(UploadNotice) ELSE CopySucceeded
    /\ pc = "done" => tf_zip # Unset /\ ~ArchiveExists

C7_Witness ==
    /\ pc = "done"
    /\ ~request.dry_run
    /\ scp_failures > 0
    /\ ~ArchiveExists
    /\ runs = 2

(* C8: when a run that generated the key-pair dies in init, validate,       *)
(* render, apply or the output extraction and the installer is started      *)
(* again in the same directory, the second run makes no ssh-keygen call and *)
(* works with the key-pair of the first.                                    *)
C8_KeyReusedOnRetry ==
    (prev.failed_after_keys /\ Did("EnsureKeys")) =>
        /\ \A i \in 1..Len(calls) : ~IsKeygen(calls[i])
        /\ KeyInUse = prev.key

\* both replacements of aws_config_file took place in config
Substituted(config, pub_key_file) ==
    /\ ~Contains(config, KeyPathDefault)
    /\ Contains(config, "citc-key")
    /\ \E i \in 1..(Len(config) - 2) :
         /\ config[i] = HeredocMarker
         /\ config[i + 1] = "\n"
         /\ <<config[i + 2]>> = Strip(pub_key_file, Whitespace)

(* C9: terraform apply is invoked only on a variable file in which the      *)
(* default key path is replaced by "citc-key" and the public key follows    *)
(* the heredoc marker line; a template without one of the two substitution  *)
(* points makes Render fail.                                                *)
C9_ApplyOnSubstitutedFile ==
    Invoked("apply") =>
        Substituted(dirs[WorkDir][TfvarsPath(request.csp)], dirs[WorkDir][<<"citc-key.pub">>])

\* a run with a csp outside the choices never gets past parse_args
C10_Rejected ==
    request.csp \notin Choices =>
        /\ pc \in {"parse", "failed"}
        /\ pc = "failed" => exitcode > 0
        /\ calls = <<>>
        /\ trace = <<>>
        /\ out = <<>>
        /\ cwd = "."

(* C10: a csp outside the choices ends the run at once with a non-zero exit: *)
(* nothing is invoked or downloaded, nothing is printed by main(), and the   *)
(* filesystem is left as it was.                                             *)
C10_UnknownProviderFailsFirst ==
    /\ []C10_Rejected
    /\ [][(request.csp \notin Choices /\ pc = "parse") =>
            (pc' = "failed" /\ UNCHANGED <<dirs, files>>)]_vars

C10_Witness ==
    /\ request.csp \notin Choices
    /\ pc = "failed"
    /\ exitcode = 2
    /\ runs = 2
    /\ DOMAIN dirs # {}

\* the urlretrieve calls of download_terraform
ToolDownloads ==
    {i \in 1..Len(calls) : IsDownload(calls[i]) /\ calls[i].argv[2] # RepoUrl(request)}

\* the URL of the pinned version for the archive name of a platform
PinnedUrl ==
    IF Head(platform) = "linux"
    THEN "https://releases.hashicorp.com/terraform/1.0.3/terraform_1.0.3_linux_amd64.zip"
    ELSE IF platform = <<"darwin">>
    THEN "https://releases.hashicorp.com/terraform/1.0.3/terraform_1.0.3_darwin_amd64.zip"
    ELSE None

(* C11: on linux and darwin the tool fetch requests exactly one URL, built   *)
(* from the version 1.0.3 and the archive name of the platform; on every    *)
(* other platform, win32 included, it ends the run with a non-zero exit     *)
(* without requesting or printing anything, and no ssh-keygen, terraform or *)
(* scp is invoked, nothing is rendered and no handoff happens.              *)
C11_PlatformResolvedOrRefused ==
    /\ (~Did("FetchInfra") \/ pc = "fetch_tool") => ToolDownloads = {}
    /\ (Did("FetchInfra") /\ pc # "fetch_tool") =>
         IF PinnedUrl # None
         THEN /\ Cardinality(ToolDownloads) = 1
              /\ \A i \in ToolDownloads : calls[i].argv = <<"urlretrieve", PinnedUrl>>
              /\ Printed(<<"Downloading Terraform binary">>)
         ELSE /\ pc = "failed"
              /\ exitcode > 0
              /\ ToolDownloads = {}
              /\ ~Printed(<<"Downloading Terraform binary">>)
              /\ Steps = SubSeq(StepOrder, 1, StepIndex("FetchInfra"))
              /\ terraform = Unset
              /\ \A i \in 1..Len(calls) :
                   ~IsKeygen(calls[i]) /\ ~IsScp(calls[i]) /\ calls[i].argv[1] # "./terraform"
              /\ ~IsFile(dirs["citc-terraform"], <<"citc-key">>)
              /\ ~IsFile(dirs["citc-terraform"], <<"terraform">>)
              /\ new_dir_name = Unset /\ tf_zip = Unset

C11_Witness ==
    /\ platform = <<"win32">>
    /\ pc = "failed"
    /\ Did("FetchInfra")
    /\ calls[Len(calls)] = [argv |-> <<"urlretrieve", RepoUrl(request)>>, rc |-> 0]
    /\ runs = 2
    /\ prev.exitcode = 1

\* the values an optional argument is given in AllRequests
OptionValues == {"", "eu-west-1", "eu-west-1a", "citc", "acme/ansible", "dev"}

AssignedNames == {"region", "availability_zone", "profile", "ansible_repo", "ansible_branch"}

\* the value of the optional argument that sets a variable
Given(name) ==
    CASE name = "region" -> request.region
      [] name = "availability_zone" -> request.availability_zone
      [] name = "profile" -> request.profile
      [] name = "ansible_repo" -> request.ansible_repo
      [] name = "ansible_branch" -> request.ansible_branch

\* the assignment lines of a variable, whatever the value
AssignmentsOf ==
    [name \in AssignedNames |-> {Assignment(name, v) : v \in OptionValues \cup {None}}]

\* the number of assignment lines of a variable in a text
AssignmentLines(text, name) ==
    Cardinality({i \in 1..Len(text) : text[i] \in AssignmentsOf[name]})

\* the variable file of the working tree
VariableFile == dirs[WorkDir][TfvarsPath(request.csp)]

(* C12 as stated: the rendered variable file holds the assignment line of    *)
(* each of region, availability_zone, profile, ansible_repo, ansible_branch  *)
(* that is given in the request exactly once, and no assignment line of one  *)
(* that is not given.                                                        *)
C12_GivenFieldsAssignedOnce ==
    Did("Render") =>
        \A name \in AssignedNames :
            IF Given(name) # None
            THEN /\ AssignmentLines(VariableFile, name) = 1
                 /\ Count(VariableFile, Assignment(name, Given(name))) = 1
            ELSE AssignmentLines(VariableFile, name) = 0

(* C12, amended: the rendered variable file holds the assignment line of     *)
(* each of the five fields that is given with a non-empty value exactly      *)
(* once, after the text of the template, and no assignment line of a field   *)
(* that is not given or given with an empty value.                           *)
C12_NonEmptyFieldsAssignedOnce ==
    Did("Render") =>
        \A name \in AssignedNames :
            IF Given(name) # None /\ Given(name) # ""
            THEN /\ AssignmentLines(VariableFile, name) = 1
                 /\ Count(VariableFile, Assignment(name, Given(name))) = 1
            ELSE AssignmentLines(VariableFile, name) = 0

C12_Witness ==
    /\ pc = "done"
    /\ Did("Render")
    /\ request.region = ""
    /\ request.availability_zone = None
    /\ request.profile = "citc"
    /\ request.ansible_repo = ""
    /\ request.ansible_branch = "dev"
    /\ AssignmentLines(VariableFile, "profile") = 1
    /\ AssignmentLines(VariableFile, "region") = 0

(* C13: whatever earlier invocations left in the start directory, the        *)
(* rename of citc-terraform never targets a name that exists there and      *)
(* never ends the run.                                                      *)
C13_RenameNeverCollides ==
    [][pc = "rename" =>
          /\ ("citc-terraform-" \o cluster_id) \notin DOMAIN dirs
          /\ pc' = "rmtree"]_vars

(* C14: a run with --dry-run and a csp of the choices in which both fetches, *)
(* ssh-keygen, init and validate succeeded does not fail afterwards, and    *)
(* ends with exit status 0 after printing the upload notice with the name   *)
(* of the archive and the destroy command with the address 1.1.1.1.         *)
C14_DryRunCompletes ==
    (request.dry_run /\ request.csp \in Choices /\ Succeeded("validate")) =>
        /\ pc # "failed"
        /\ pc = "done" =>
             /\ exitcode = 0
             /\ Printed(<<"... pretending to upload the config ", ArchiveName("citc-terraform"),
                          " to the cluster ...">>)
             /\ \E i \in 1..Len(out) :
                  /\ out[i][1] = "  python destroy-citc.py "
                  /\ Contains(out[i], "1.1.1.1")

\* the rules of aws_config_file and config_file, one per statement
ReplaceRules == {"key_path", "public_key"}
AppendRules == <<"region", "availability_zone", "profile", "ansible_repo", "ansible_branch">>

ApplyRule(rule, config, args, pub_key_file) ==
    CASE rule = "key_path" -> Replace(config, KeyPathDefault, <<"citc-key">>)
      [] rule = "public_key" ->
            Replace(config, HeredocMarker,
                    <<HeredocMarker, "\n">> \o Strip(pub_key_file, Whitespace))
      [] OTHER -> IF Truthy(args[rule])
                  THEN Append(config, Assignment(rule, args[rule])) ELSE config

RECURSIVE ApplyRules(_, _, _, _)
ApplyRules(order, config, args, pub_key_file) ==
    IF order = <<>> THEN config
    ELSE ApplyRules(Tail(order), ApplyRule(Head(order), config, args, pub_key_file),
                    args, pub_key_file)

RECURSIVE Perms(_)
Perms(S) == IF S = {} THEN {<<>>}
            ELSE UNION {{<<x>> \o q : q \in Perms(S \ {x})} : x \in S}

\* the orders with every append rule after every replace rule
ValidOrders ==
    {r \o a : r \in Perms(ReplaceRules),
              a \in Perms({AppendRules[i] : i \in 1..Len(AppendRules)})}

\* those of them that keep the append rules in the order of the code
CodeOrders == {r \o AppendRules : r \in Perms(ReplaceRules)}

\* config_file wrote the variable file in this step
Rendering == pc = "render" /\ pc' = "apply"

Segments(text, from) == {text[i] : i \in from..Len(text)}

(* C15 as stated: the text config_file writes is the text that results from  *)
(* the two replace rules and the five append rules applied in any order     *)
(* that has every append rule after every replace rule.                     *)
C15_AnyOrderSameText ==
    [][Rendering =>
          \A order \in ValidOrders :
              dirs'[cwd][TfvarsPath(request.csp)] =
                  ApplyRules(order, dirs[cwd][TfvarsPath(request.csp)], request,
                             dirs[cwd][<<"citc-key.pub">>])]_vars

(* C15, amended: the two replace rules applied in either order, followed by  *)
(* the append rules in the order region, availability_zone, profile,        *)
(* ansible_repo, ansible_branch, give the text config_file writes; any      *)
(* other order of the append rules gives the same substituted template      *)
(* followed by the same assignment lines in another order.                  *)
C15_ReplaceOrderFree ==
    [][Rendering =>
          LET template == dirs[cwd][TfvarsPath(request.csp)]
              pub_key_file == dirs[cwd][<<"citc-key.pub">>]
              written == dirs'[cwd][TfvarsPath(request.csp)]
              body == Len(ApplyRules(<<"key_path", "public_key">>, template, request,
                                     pub_key_file))
          IN  /\ \A order \in CodeOrders :
                   written = ApplyRules(order, template, request, pub_key_file)
              /\ \A order \in ValidOrders :
                   LET text == ApplyRules(order, template, request, pub_key_file)
                   IN  /\ Len(text) = Len(written)
                       /\ SubSeq(text, 1, body) = SubSeq(written, 1, body)
                       /\ Segments(text, body + 1) = Segments(written, body + 1)]_vars

C15_Witness ==
    /\ Did("Render")
    /\ pc = "apply"
    /\ Truthy(request.region) /\ Truthy(request.profile) /\ Truthy(request.ansible_branch)
    /\ ~Truthy(request.availability_zone)
    /\ Substituted(VariableFile, dirs[WorkDir][<<"citc-key.pub">>])
    /\ Len(VariableFile) > 9

\* the file key_path names, seen from the start directory
KeyFileExists ==
    /\ cwd = "."
    /\ key_path = new_dir_name \o "/citc-key"
    /\ new_dir_name \in DOMAIN dirs
    /\ IsFile(dirs[new_dir_name], <<"citc-key">>)
    /\ \E k \in 1..keygens : dirs[new_dir_name][<<"citc-key">>] = PrivateKey(k)

(* C16: the destroy command of the Summary names the csp of the request,    *)
(* the address every scp was sent to and the key every scp was given with   *)
(* -i; that key path is citc-key inside the renamed directory, where the    *)
(* private key exists at every scp attempt and at the end of the run.       *)
C16_DestroyMatchesCopy ==
    /\ \A i \in 1..Len(calls) :
         IsScp(calls[i]) =>
            /\ calls[i].argv[2] = "-i" /\ calls[i].argv[3] = key_path
            /\ calls[i].argv[Len(calls[i].argv)] = "citc@" \o ip \o ":."
    /\ pc \in {"scp", "sleep", "remove", "summary", "done"} =>
         /\ KeyFileExists
         /\ new_dir_name = "citc-terraform-" \o cluster_id
    /\ pc = "done" =>
         /\ Printed(<<"  python destroy-citc.py ", request.csp, " ", ip, " ", key_path>>)
         /\ \A i \in 1..Len(out) :
              out[i][1] = "  python destroy-citc.py " =>
                 out[i] = <<"  python destroy-citc.py ", request.csp, " ", ip, " ", key_path>>
         /\ request.csp \in Choices

C16_Witness ==
    /\ pc = "done"
    /\ ~request.dry_run
    /\ Len(calls) > 9
    /\ IsScp(calls[Len(calls)]) /\ IsScp(calls[Len(calls) - 1])
    /\ calls[Len(calls)].argv[3] = "citc-terraform-able-crow/citc-key"
    /\ Printed(<<"  python destroy-citc.py ", "aws", " ", "10.0.0.7", " ",
                 "citc-terraform-able-crow/citc-key">>)
    /\ KeyFileExists

Archivings == Cardinality({i \in 1..Len(trace) : trace[i] = "Archive"})

\* the archive holds the renamed directory as it is
ArchiveIsCurrent ==
    /\ ArchiveExists
    /\ new_dir_name \in DOMAIN dirs
    /\ files[tf_zip] = [base_dir |-> new_dir_name, tree |-> dirs[new_dir_name]]

C17_ArchivedOnce ==
    /\ Archivings <= 1
    /\ pc \in {"rmtree", "archive"} => Archivings = 0 /\ \A i \in 1..Len(calls) : ~IsScp(calls[i])
    /\ (pc \in {"scp", "sleep"} \/ \E i \in 1..Len(calls) : IsScp(calls[i])) => Archivings = 1
    /\ pc \in {"scp", "sleep"} => ArchiveIsCurrent

(* C17: make_archive runs once in a run, before the first scp; from then to *)
(* the last scp attempt, however many fail, the archive and the renamed     *)
(* directory stay as they are: not rebuilt, not changed, not removed.       *)
C17_ArchiveUntouchedWhileCopying ==
    /\ []C17_ArchivedOnce
    /\ [][(pc = "scp" \/ pc = "sleep") =>
            UNCHANGED <<dirs, files, tf_zip, new_dir_name, cwd>>]_vars

C17_Witness ==
    /\ pc = "scp"
    /\ scp_failures = MaxScpFailures
    /\ Cardinality({i \in 1..Len(calls) : IsScp(calls[i]) /\ calls[i].rc # 0}) >= 2
    /\ Archivings = 1
    /\ ArchiveIsCurrent
    /\ runs = 2

\* the tree holds a key-pair of one ssh-keygen call
HoldsKeyPair(tree) ==
    /\ IsFile(tree, <<"citc-key">>)
    /\ IsFile(tree, <<"citc-key.pub">>)
    /\ \E k \in 1..keygens :
         tree[<<"citc-key">>] = PrivateKey(k) /\ tree[<<"citc-key.pub">>] = PublicKey(k)

(* C18: <csp>/.terraform is removed from the renamed directory before       *)
(* make_archive runs, so the archive that scp sends, or the dry run names,  *)
(* holds the renamed directory with the rendered terraform.tfvars and the   *)
(* key-pair and holds nothing of <csp>/.terraform.                          *)
C18_ArchiveWithoutCache ==
    /\ pc = "archive" =>
         /\ Did("Rmtree")
         /\ ~IsDir(dirs[new_dir_name], DotTerraform(request.csp))
         /\ ~ArchiveExists
    /\ ArchiveExists =>
         LET archive == files[tf_zip]
         IN  /\ archive.base_dir = new_dir_name
             /\ archive.tree = dirs[new_dir_name]
             /\ \A q \in DOMAIN archive.tree : ~IsPrefix(DotTerraform(request.csp), q)
             /\ IsFile(archive.tree, TfvarsPath(request.csp))
             /\ RenderedFile(archive.tree)
             /\ HoldsKeyPair(archive.tree)
             /\ IsFile(archive.tree, <<request.csp, "main.tf">>)
    /\ (\E i \in 1..Len(calls) : IsScp(calls[i])) => Did("Rmtree") /\ Did("Archive")

C18_Witness ==
    /\ pc = "notice"
    /\ request.dry_run
    /\ Truthy(request.profile)
    /\ ArchiveExists
    /\ IsFile(files[tf_zip].tree, <<request.csp, ".terraform.lock.hcl">>)
    /\ ~IsFile(files[tf_zip].tree, DotTerraform(request.csp) \o <<"providers">>)
    /\ Succeeded("init")

(* C19 as stated: the name of the archive is built from the base name and   *)
(* the cluster identifier, citc-terraform-<cluster_id>, so that runs with   *)
(* different identifiers name their archives differently.                   *)
C19_ArchiveNamedByCluster ==
    tf_zip # Unset =>
        tf_zip \in {"citc-terraform-" \o cluster_id,
                    ArchiveName("citc-terraform-" \o cluster_id)}

(* C19, amended: the archive is named citc-terraform.tar.gz in every run,   *)
(* whatever the cluster identifier; the identifier is in the name of the    *)
(* directory the archive holds, citc-terraform-<cluster_id>.                *)
C19_FixedArchiveName ==
    /\ tf_zip # Unset => tf_zip = "citc-terraform.tar.gz"
    /\ DOMAIN files \subseteq {"citc-terraform.tar.gz"}
    /\ ArchiveExists => files[tf_zip].base_dir = "citc-terraform-" \o cluster_id
    /\ \A i \in 1..Len(calls) :
         IsScp(calls[i]) => calls[i].argv[8] = "citc-terraform.tar.gz"

\* a second run with another identifier than the first, at its archive
C19_Witness ==
    /\ runs = 2
    /\ cluster_id = "test-cluster"
    /\ "citc-terraform-able-crow" \in DOMAIN dirs
    /\ ArchiveExists
    /\ files[tf_zip].base_dir = "citc-terraform-test-cluster"
    /\ pc = "notice"

\* citc-terraform is a tree of the repository as it was fetched
FreshlyFetched(tree) == \E template \in Templates : tree = FetchedTree(template)

C20_FreshBeforeRender ==
    /\ pc = "fetch_tool" => FreshlyFetched(dirs["citc-terraform"])
    /\ pc = "render" => dirs[cwd][TfvarsPath(request.csp)] \in Templates
    /\ pc = "apply" =>
         \A name \in AssignedNames :
            AssignmentLines(VariableFile, name) = IF Truthy(Given(name)) THEN 1 ELSE 0

(* C20: the infra fetch of every run leaves in citc-terraform exactly the   *)
(* fetched tree, with nothing of a citc-terraform that an earlier run left  *)
(* behind (rendered terraform.tfvars, terraform binary, key-pair), so that  *)
(* config_file reads an unrendered template and the rendered file holds     *)
(* each assignment line once, also in a repeated run.                       *)
C20_FetchReplacesWorkDir ==
    /\ []C20_FreshBeforeRender
    /\ [][(pc = "fetch_infra" /\ pc' = "fetch_tool") =>
            /\ FreshlyFetched(dirs'["citc-terraform"])
            /\ "terraform-" \o request.terraform_branch \notin DOMAIN dirs'
            /\ \A n \in DOMAIN dirs : n # "citc-terraform" => (n \in DOMAIN dirs' /\ dirs'[n] = dirs[n])]_vars

\* the second run has rendered after the first left a rendered citc-terraform
C20_Witness ==
    /\ runs = 2
    /\ prev.failed_after_keys
    /\ prev.key # <<>>
    /\ pc = "apply"
    /\ Did("Render")
    /\ Truthy(request.region)
    /\ AssignmentLines(VariableFile, "region") = 1
    /\ DOMAIN dirs = {"citc-terraform"}

====
